---- MODULE Spec2Model ----
(***************************************************************************)
(* A model of hashfilter's concurrent hashing engine (src/src/util.rs):    *)
(* the command-line configuration (Options::new, prepare_args), the worker *)
(* pool (execute_workers, calculate_hash), the record grammar              *)
(* (regex_from_opts) and the directory enumerator (DirWalker), by pulls    *)
(* and as a byte stream.                                                   *)
(*                                                                         *)
(* Strings are sequences of one-character strings, so that slicing,        *)
(* searching and case conversion are computed as the code computes them.   *)
(***************************************************************************)
EXTENDS Integers, Sequences, FiniteSets, TLC

(***************************************************************************)
(* Bounds of the model.                                                    *)
(***************************************************************************)
\* the largest number of HashTasks the producer submits
MaxTasks == 2
\* the largest num_threads handed to execute_workers
MaxThreads == 2

(***************************************************************************)
(* String helpers (std::string / str).                                     *)
(***************************************************************************)
Digits == <<"0", "1", "2", "3", "4", "5", "6", "7", "8", "9">>

IsDigit(c) == \E d \in 1..Len(Digits) : Digits[d] = c

DigitValue(c) == (CHOOSE d \in 1..Len(Digits) : Digits[d] = c) - 1

\* char::to_lowercase on the letters the inputs use
LowerChar(c) ==
    CASE c = "A" -> "a"
      [] c = "D" -> "d"
      [] c = "H" -> "h"
      [] c = "M" -> "m"
      [] c = "S" -> "s"
      [] OTHER -> c

\* str::to_lowercase
ToLowercase(s) == [j \in 1..Len(s) |-> LowerChar(s[j])]

\* str::contains(char)
ContainsChar(s, c) == \E j \in 1..Len(s) : s[j] = c

\* str::contains("--")
ContainsDashDash(s) == \E j \in 1..(Len(s) - 1) : s[j] = "-" /\ s[j + 1] = "-"

\* str::starts_with(char)
StartsWithChar(s, c) == Len(s) >= 1 /\ s[1] = c

\* str::find(char): the 0-based position of the first c, or -1 for None
FindChar(s, c) ==
    IF ContainsChar(s, c)
    THEN (CHOOSE j \in 1..Len(s) : s[j] = c /\ \A h \in 1..(j - 1) : s[h] # c) - 1
    ELSE -1

\* &s[from..] with a 0-based start
SliceFrom(s, from) == SubSeq(s, from + 1, Len(s))

\* &s[0..to] with a 0-based exclusive end
SliceTo(s, to) == SubSeq(s, 1, to)

\* str::trim
RECURSIVE TrimStart(_)
TrimStart(s) == IF Len(s) >= 1 /\ s[1] = " " THEN TrimStart(Tail(s)) ELSE s

RECURSIVE TrimEnd(_)
TrimEnd(s) ==
    IF Len(s) >= 1 /\ s[Len(s)] = " " THEN TrimEnd(SubSeq(s, 1, Len(s) - 1)) ELSE s

Trim(s) == TrimEnd(TrimStart(s))

\* str::parse::<usize>: an optional '+' and at least one decimal digit; -1 for Err
RECURSIVE DigitsValue(_, _)
DigitsValue(s, acc) ==
    IF s = <<>> THEN acc ELSE DigitsValue(Tail(s), acc * 10 + DigitValue(s[1]))

ParseUsize(s) ==
    LET body == IF StartsWithChar(s, "+") THEN Tail(s) ELSE s
    IN  IF body # <<>> /\ \A j \in 1..Len(body) : IsDigit(body[j])
        THEN DigitsValue(body, 0)
        ELSE -1

(***************************************************************************)
(* Options::new and prepare_args.                                          *)
(***************************************************************************)
\* the option spellings matched in Options::new
AlgoFlags == {<<"-", "a">>, <<"-", "-", "a", "l", "g", "o">>, <<"-", "-", "a", "l", "g", "o", "r", "i", "t", "h", "m">>}

SubdirFlags ==
    {<<"-", "s">>, <<"-", "-", "s", "u", "b", "d", "i", "r">>, <<"-", "-", "s", "u", "b", "d", "i", "r", "s">>, <<"-", "-", "s", "u", "b", "d", "i", "r", "e", "c", "t", "o", "r", "i", "e", "s">>}

UpdateFlags == {<<"-", "u">>, <<"-", "-", "u", "p", "d", "a", "t", "e">>}

VerifyFlags == {<<"-", "v">>, <<"-", "-", "v", "e", "r", "i", "f", "y">>}

LogLevelFlags ==
    {<<"-", "-", "l", "o", "g", "l", "e", "v", "e", "l">>, <<"-", "-", "l", "o", "g", "_", "l", "e", "v", "e", "l">>, <<"-", "-", "l", "o", "g", "-", "l", "e", "v", "e", "l">>}

QuietFlag == <<"-", "-", "q", "u", "i", "e", "t">>

ThreadFlags == {<<"-", "T">>, <<"-", "-", "t", "h", "r", "e", "a", "d", "s">>}

HelpFlags == {<<"-", "h">>, <<"-", "-", "h", "e", "l", "p">>}

VersionFlags == {<<"-", "V">>, <<"-", "-", "v", "e", "r", "s", "i", "o", "n">>}

\* the value of --loglevel
LogLevelOf(s) ==
    IF s \in {<<"n", "o", "n", "e">>, <<"q", "u", "i", "e", "t">>, <<"0">>} THEN "Quiet"
    ELSE IF s \in {<<"i", "n", "f", "o">>, <<"1">>} THEN "Info"
    ELSE IF s = <<"p", "r", "o", "g", "r", "e", "s", "s">> THEN "Progress"
    ELSE IF s \in {<<"d", "e", "b", "u", "g">>, <<"2">>} THEN "Debug"
    ELSE "Info"

\* the algorithm names calculate_hash and regex_from_opts recognize
Sha1 == <<"s", "h", "a", "1">>

Md5 == <<"m", "d", "5">>

Sha224 == <<"s", "h", "a", "2", "2", "4">>

Sha256 == <<"s", "h", "a", "2", "5", "6">>

Sha384 == <<"s", "h", "a", "3", "8", "4">>

Sha512 == <<"s", "h", "a", "5", "1", "2">>

SupportedAlgorithms == {Sha1, Md5, Sha224, Sha256, Sha384, Sha512}

\* the inner loop of prepare_args: one "-c" per character of characters
SingleArgs(characters) == [j \in 1..Len(characters) |-> <<"-", characters[j]>>]

\* the body of prepare_args' loop for one argument
PrepareOne(arg) ==
    IF ~ContainsChar(arg, "=")
    THEN IF ContainsChar(arg, "-") /\ ~ContainsDashDash(arg) /\ Len(arg) > 2
         THEN SingleArgs(SliceFrom(arg, 1))
         ELSE <<arg>>
    ELSE LET position == FindChar(arg, "=")
         IN  <<SliceTo(arg, position), SliceFrom(arg, position + 1)>>

RECURSIVE prepare_args(_)
prepare_args(args) ==
    IF args = <<>> THEN <<>> ELSE PrepareOne(Head(args)) \o prepare_args(Tail(args))

\* the Options value Options::new starts from
DefaultOptions(program_name) ==
    [help |-> FALSE, version_info |-> FALSE, program_name |-> program_name,
     algorithm |-> Sha1, subdir_mode |-> FALSE, mode |-> "Filter",
     log_level |-> "Info", num_threads |-> 0, folder |-> <<".">>]

Panicked(opts) == [panicked |-> TRUE, opts |-> opts]

Returned(opts) == [panicked |-> FALSE, opts |-> opts]

\* one iteration of Options::new's loop over the prepared arguments; i is 0-based
OptionsArm(args, i, opts) ==
    LET arg == args[i + 1]
        has_next == i + 1 < Len(args)
    IN
    IF StartsWithChar(arg, "-")
    THEN IF arg \in AlgoFlags
         THEN IF has_next
              THEN Returned([opts EXCEPT !.algorithm = ToLowercase(args[i + 2])])
              ELSE Panicked(opts)
         ELSE IF arg \in SubdirFlags THEN Returned([opts EXCEPT !.subdir_mode = TRUE])
         ELSE IF arg \in UpdateFlags THEN Returned([opts EXCEPT !.mode = "Update"])
         ELSE IF arg \in VerifyFlags THEN Returned([opts EXCEPT !.mode = "Verify"])
         ELSE IF arg \in LogLevelFlags
         THEN IF has_next
              THEN Returned([opts EXCEPT !.log_level = LogLevelOf(args[i + 2])])
              ELSE Panicked(opts)
         ELSE IF arg = QuietFlag THEN Returned([opts EXCEPT !.log_level = "Quiet"])
         ELSE IF arg \in ThreadFlags
         THEN IF has_next /\ ParseUsize(Trim(args[i + 2])) >= 0
              THEN Returned([opts EXCEPT !.num_threads = ParseUsize(Trim(args[i + 2]))])
              ELSE Panicked(opts)
         ELSE IF arg \in HelpFlags THEN Returned([opts EXCEPT !.help = TRUE])
         ELSE IF arg \in VersionFlags THEN Returned([opts EXCEPT !.version_info = TRUE])
         ELSE Returned([opts EXCEPT !.help = TRUE])
    ELSE IF i = 0
         THEN Panicked(opts)   \* args[i - 1] with i = 0
         ELSE IF args[i] \in (LogLevelFlags \cup AlgoFlags \cup ThreadFlags)
              THEN Returned(opts)
              ELSE Returned([opts EXCEPT !.folder = arg])

RECURSIVE OptionsLoop(_, _, _)
OptionsLoop(args, i, opts) ==
    IF i >= Len(args)
    THEN Returned(opts)
    ELSE LET r == OptionsArm(args, i, opts)
         IN  IF r.panicked THEN r ELSE OptionsLoop(args, i + 1, r.opts)

\* Options::new(args): args[0] is the program name
Options_new(args) == OptionsLoop(prepare_args(Tail(args)), 0, DefaultOptions(args[1]))

(***************************************************************************)
(* The state of the worker pool.                                           *)
(***************************************************************************)
VARIABLES
    args,               \* the command line handed to Options::new
    main_pc,            \* the main thread: "start", then "running" once Options::new
                        \* has returned, or "aborted" once it has panicked
    config,             \* Options::new's opts, and whether Options::new panicked
    prepared,           \* the Vec prepare_args returned to Options::new (empty before)
    num_threads,        \* execute_workers' num_threads
    ntasks,             \* k, the number of HashTasks the producer submits
    fs,                 \* fs[c]: what opening and reading task c's file did when it
                        \* was hashed: "ok", "noopen" or "readerr" ("unseen" before)
    rx,                 \* rx[c]: whether the receiver of result channel c was "alive"
                        \* or "dropped" when task c was hashed ("unused" before)
    q,                  \* the Injector<HashTask>, oldest task first
    producer_finished,  \* the AtomicBool
    pushed,             \* how many tasks the producer has pushed
    ew_pc,              \* execute_workers: "idle", "loop" or "returned"
    ew_i,               \* execute_workers: iterations of its for loop done
    worker_handles,     \* the caller's Vec<JoinHandle<()>>
    pc,                 \* pc[w]: where worker thread w is
    cur,                \* cur[w]: the task worker w stole and has not finished
    last,               \* last[w]: what worker w's latest steal() returned
    chan,               \* chan[c]: the outcomes sent on result channel c, in order
    steals              \* steals[c]: how often task c was removed from the queue

poolvars == <<args, main_pc, config, prepared, num_threads, ntasks, fs, rx, q, producer_finished, pushed,
              ew_pc, ew_i, worker_handles, pc, cur, last, chan, steals>>

VARIABLES
    tree,                 \* the directory tree: [n, parent, kind]
    faults,               \* faults[d]: the fault of scanning directory d, if it has one
    start_directory,      \* DirWalker::new's start_directory
    w_pc,                 \* "new" before DirWalker::new, then "live" or "panicked"
    current_files,        \* DirWalker.current_files
    current_directories,  \* DirWalker.current_directories
    unfinished_read,      \* DirWalker.unfinished_read
    subdir_mode,          \* DirWalker.subdir_mode
    pulled,               \* the paths next() has returned, in order
    last_pull             \* what the latest next() returned: "none yet", "Some", "None"

walkvars == <<tree, faults, start_directory, w_pc, current_files, current_directories,
              unfinished_read, subdir_mode, pulled, last_pull>>

VARIABLES
    pulled_src,           \* the file paths next() popped for the paths in pulled
    scanned,              \* the directories next() has popped and scanned, in order
    stream,               \* the bytes the read() calls have returned, in order
    lines,                \* the lines read() has formatted from next()'s paths, in order
    last_read,            \* what the latest read() returned: -1 before the first
    reads,                \* how many read() calls have returned
    min_buf               \* the shortest buffer a read() was called with (0: none yet)

readvars == <<pulled_src, scanned, stream, lines, last_read, reads, min_buf>>

VARIABLES
    g_input,              \* the algorithm, digest and path of a manifest line
    g_line,               \* the manifest line
    g_match,              \* what matching the line against regex_from_opts' pattern gave
    g_pc                  \* "input", then "line", then "matched"

gramvars == <<g_input, g_line, g_match, g_pc>>

VARIABLES
    h_len,                \* the length L of the file calculate_hash reads
    h_pos,                \* the file's cursor: the bytes read so far
    h_fed,                \* the chunks fed to the hasher, each <<offset, length>>
    h_pc                  \* calculate_hash's read loop: "loop" or "done"

hashvars == <<h_len, h_pos, h_fed, h_pc>>

\* the state the worker pool does not touch, and the state the walker does not
othervars == <<readvars, gramvars, hashvars>>

HexDigits == <<"0", "1", "2", "3", "4", "5", "6", "7", "8", "9",
               "a", "b", "c", "d", "e", "f">>

ProgramName == <<"h", "f">>

\* the command lines the pool is run with: the default algorithm, a supported name
\* in upper case, an unknown name, and a missing value (Options::new panics)
ArgVectors ==
    { <<ProgramName>>,
      <<ProgramName, <<"-", "a">>, <<"M", "D", "5">>>>,
      <<ProgramName, <<"-", "a">>, <<"m", "d", "4">>>>,
      <<ProgramName, <<"-", "a">>>> }

Workers == 1..MaxThreads

\* the tasks the producer creates: task c reports on result channel c
TaskPath(c) == <<"f", Digits[c + 1]>>

TaskCmp(c) == IF c = 1 THEN <<>> ELSE <<"e", Digits[c + 1]>>

Workdir == <<".">>

HashTask(c, opts) ==
    [path |-> TaskPath(c), workdir |-> Workdir, opts |-> opts, cmp |-> TaskCmp(c),
     result_chan |-> c]

NoTask == [path |-> <<>>, workdir |-> <<>>, opts |-> <<>>, cmp |-> <<>>, result_chan |-> 0]

\* the handle of a thread spawned before execute_workers is called
PriorHandle == 0

FileStatus == {"ok", "noopen", "readerr"}

\* format!("{}/{}", workdir, path)
FilePath(workdir, path) == workdir \o <<"/">> \o path

(***************************************************************************)
(* calculate_hash.                                                         *)
(***************************************************************************)
\* the hex width of each algorithm's digest
HexWidth(algorithm) ==
    CASE algorithm = Sha1 -> 40
      [] algorithm = Md5 -> 32
      [] algorithm = Sha224 -> 56
      [] algorithm = Sha256 -> 64
      [] algorithm = Sha384 -> 96
      [] algorithm = Sha512 -> 128

\* hex::encode(hasher.result()) for the file at file_path: lower-case hex of the
\* algorithm's width, a function of the algorithm and of the file
HexDigest(algorithm, file_path) ==
    [j \in 1..HexWidth(algorithm) |->
        HexDigits[((Len(file_path) + DigitValue(file_path[Len(file_path)]) + j) % 16) + 1]]

\* format!("{}  {}\n", hex, path)
FormatLine(hex, path) == hex \o <<" ", " ">> \o path \o <<"\n">>

\* calculate_hash unwrapping the result of File::open
calculate_hash_open_unwrap(path, workdir, opts, files) ==
    LET file_path == FilePath(workdir, path)
    IN  IF opts.algorithm \notin SupportedAlgorithms
        THEN [kind |-> "panic_algo"]
        ELSE IF files[file_path] \in {"noopen", "readerr"}
        THEN [kind |-> "panic_read"]
        ELSE [kind |-> "Ok", line |-> FormatLine(HexDigest(opts.algorithm, file_path), path)]

\* calculate_hash(path, workdir, opts) on the files in files: "Ok" with the line,
\* "Err" with the HashError, or a panic
calculate_hash(path, workdir, opts, files) ==
    LET file_path == FilePath(workdir, path)
    IN  IF opts.algorithm \notin SupportedAlgorithms
        THEN [kind |-> "panic_algo"]
        ELSE IF files[file_path] = "noopen"
        THEN [kind |-> "Err", error |-> [source |-> "open", path |-> path]]
        ELSE IF files[file_path] = "readerr"
        THEN [kind |-> "panic_read"]
        ELSE [kind |-> "Ok", line |-> FormatLine(HexDigest(opts.algorithm, file_path), path)]

(***************************************************************************)
(* The producer (the orchestrating thread) and execute_workers.            *)
(***************************************************************************)
Running(w) == pc[w] \in {"steal", "work", "check"}

Terminated(w) == pc[w] \in {"done", "panic_algo", "panic_read", "panic_send"}

PoolInit ==
    /\ args \in ArgVectors
    /\ main_pc = "start"
    /\ config = Returned(DefaultOptions(args[1]))
    /\ prepared = <<>>
    /\ num_threads \in 0..MaxThreads
    /\ ntasks \in 0..MaxTasks
    /\ fs = [c \in 1..ntasks |-> "unseen"]
    /\ rx = [c \in 1..ntasks |-> "unused"]
    /\ q = <<>>
    /\ producer_finished = FALSE
    /\ pushed = 0
    /\ ew_pc = "idle"
    /\ ew_i = 0
    /\ worker_handles = <<PriorHandle>>
    /\ pc = [w \in Workers |-> "unborn"]
    /\ cur = [w \in Workers |-> NoTask]
    /\ last = [w \in Workers |-> "none"]
    /\ chan = [c \in 1..ntasks |-> <<>>]
    /\ steals = [c \in 1..ntasks |-> 0]

\* main: let opts = util::Options::new(std::env::args().collect())
OptionsNew ==
    /\ main_pc = "start"
    /\ prepared' = prepare_args(Tail(args))
    /\ config' = Options_new(args)
    /\ main_pc' = IF config'.panicked THEN "aborted" ELSE "running"
    /\ UNCHANGED <<args, num_threads, ntasks, fs, rx, q, producer_finished, pushed, ew_pc,
                   ew_i, worker_handles, pc, cur, last, chan, steals, walkvars, othervars>>

\* q.push(task): the producer makes its next task visible in the queue
Push ==
    /\ main_pc = "running"
    /\ ew_pc # "loop"
    /\ ~producer_finished
    /\ pushed < ntasks
    /\ q' = Append(q, HashTask(pushed + 1, config.opts))
    /\ pushed' = pushed + 1
    /\ UNCHANGED <<args, main_pc, config, prepared, num_threads, ntasks, fs, rx, producer_finished, ew_pc,
                   ew_i, worker_handles, pc, cur, last, chan, steals,
                   walkvars, othervars>>

\* producer_finished.store(true), only after every task has been pushed
SetFinished ==
    /\ main_pc = "running"
    /\ ew_pc # "loop"
    /\ ~producer_finished
    /\ pushed = ntasks
    /\ producer_finished' = TRUE
    /\ UNCHANGED <<args, main_pc, config, prepared, num_threads, ntasks, fs, rx, q, pushed, ew_pc, ew_i,
                   worker_handles, pc, cur, last, chan, steals,
                   walkvars, othervars>>

\* the producer calls execute_workers(num_threads, q, producer_finished, worker_handles)
ExecuteWorkersCall ==
    /\ main_pc = "running"
    /\ ew_pc = "idle"
    /\ ew_pc' = "loop"
    /\ ew_i' = 0
    /\ UNCHANGED <<args, main_pc, config, prepared, num_threads, ntasks, fs, rx, q, producer_finished,
                   pushed, worker_handles, pc, cur, last, chan, steals,
                   walkvars, othervars>>

\* the inclusive range 0..=num_threads
SpawnLimit_inclusive(n) == n + 1

\* the upper end of execute_workers' range 0..num_threads
SpawnLimit(n) == n

\* one iteration of execute_workers' for loop: spawn a thread, push its handle
ExecuteWorkersSpawn ==
    /\ ew_pc = "loop"
    /\ ew_i < SpawnLimit(num_threads)
    /\ pc' = [pc EXCEPT ![ew_i + 1] = "steal"]
    /\ worker_handles' = Append(worker_handles, ew_i + 1)
    /\ ew_i' = ew_i + 1
    /\ UNCHANGED <<args, main_pc, config, prepared, num_threads, ntasks, fs, rx, q, producer_finished,
                   pushed, ew_pc, cur, last, chan, steals,
                   walkvars, othervars>>

\* execute_workers returns when its range is exhausted
ExecuteWorkersReturn ==
    /\ ew_pc = "loop"
    /\ ew_i >= SpawnLimit(num_threads)
    /\ ew_pc' = "returned"
    /\ UNCHANGED <<args, main_pc, config, prepared, num_threads, ntasks, fs, rx, q, producer_finished,
                   pushed, ew_i, worker_handles, pc, cur, last, chan, steals,
                   walkvars, othervars>>

(***************************************************************************)
(* The worker thread's loop.                                               *)
(***************************************************************************)
\* a steal whose Success leaves the task in the queue
Injector_steal_keep(queue) ==
    IF queue = <<>>
    THEN {[kind |-> "Empty", task |-> NoTask, rest |-> queue]}
    ELSE {[kind |-> "Success", task |-> Head(queue), rest |-> queue],
          [kind |-> "Retry", task |-> NoTask, rest |-> queue]}

\* Injector::steal on queue: the results it may return, each with the queue it
\* leaves.  Success removes the oldest task; Retry (a lost or spuriously failed
\* compare-exchange) and Empty remove nothing.
Injector_steal(queue) ==
    IF queue = <<>>
    THEN {[kind |-> "Empty", task |-> NoTask, rest |-> queue]}
    ELSE {[kind |-> "Success", task |-> Head(queue), rest |-> Tail(queue)],
          [kind |-> "Retry", task |-> NoTask, rest |-> queue]}

\* let task = myq.steal(), and the Retry arm's sleep
WorkerSteal(w) ==
    /\ pc[w] = "steal"
    /\ \E s \in Injector_steal(q) :
        /\ q' = s.rest
        /\ last' = [last EXCEPT ![w] = s.kind]
        /\ cur' = [cur EXCEPT ![w] = s.task]
        /\ pc' = [pc EXCEPT ![w] = CASE s.kind = "Success" -> "work"
                                     [] s.kind = "Retry" -> "steal"
                                     [] s.kind = "Empty" -> "check"]
        /\ steals' = IF s.kind = "Success"
                     THEN [steals EXCEPT ![s.task.result_chan] = @ + 1]
                     ELSE steals
    /\ UNCHANGED <<args, main_pc, config, prepared, num_threads, ntasks, fs, rx, producer_finished, pushed,
                   ew_pc, ew_i, worker_handles, chan,
                   walkvars, othervars>>

\* the outcome the Success arm sends for task, given what calculate_hash returned
OutcomeOf(task, hashline) ==
    IF hashline.kind = "Ok"
    THEN [ok |-> TRUE, line |-> hashline.line, cmp |-> task.cmp]
    ELSE [ok |-> FALSE, error |-> hashline.error]

\* sending every outcome on the first task's channel
SendChannel_first(task) == 1

\* the channel the Success arm sends on
SendChannel(task) == task.result_chan

\* where the worker goes after task.result_chan.send(..).unwrap()
AfterSend(receiver_alive) == IF receiver_alive THEN "steal" ELSE "panic_send"

\* the Success arm: calculate_hash, then send the outcome on the task's channel.
\* status is what the file system does for the task's file, alive whether the
\* channel's receiver still exists when the outcome is sent.
WorkerProcess(w) ==
    /\ pc[w] = "work"
    /\ \E status \in FileStatus, alive \in BOOLEAN :
        LET task == cur[w]
            file_path == FilePath(task.workdir, task.path)
            hashline == calculate_hash(task.path, task.workdir, task.opts,
                                       [f \in {file_path} |-> status])
        IN  /\ fs' = [fs EXCEPT ![task.result_chan] = status]
            /\ rx' = [rx EXCEPT ![task.result_chan] = IF alive THEN "alive" ELSE "dropped"]
            /\ IF hashline.kind \in {"panic_algo", "panic_read"}
               THEN /\ pc' = [pc EXCEPT ![w] = hashline.kind]
                    /\ chan' = chan
               ELSE /\ pc' = [pc EXCEPT ![w] = AfterSend(alive)]
                    /\ chan' = IF alive
                               THEN [chan EXCEPT ![SendChannel(task)] =
                                         Append(@, OutcomeOf(task, hashline))]
                               ELSE chan
    /\ cur' = [cur EXCEPT ![w] = NoTask]
    /\ UNCHANGED <<args, main_pc, config, prepared, num_threads, ntasks, q, producer_finished,
                   pushed, ew_pc, ew_i, worker_handles, last, steals,
                   walkvars, othervars>>

\* a load that never sees the store
LoadFinished_never(flag) == FALSE

\* a load that sees the store before it happens
LoadFinished_always(flag) == TRUE

\* myp.load(Ordering::Relaxed): the value the worker reads
LoadFinished(flag) == flag

\* the Empty arm: break if the flag is set, otherwise sleep and loop
WorkerCheck(w) ==
    /\ pc[w] = "check"
    /\ pc' = [pc EXCEPT ![w] = IF LoadFinished(producer_finished) THEN "done" ELSE "steal"]
    /\ UNCHANGED <<args, main_pc, config, prepared, num_threads, ntasks, fs, rx, q, producer_finished,
                   pushed, ew_pc, ew_i, worker_handles, cur, last, chan, steals,
                   walkvars, othervars>>

(***************************************************************************)
(* The directory tree a DirWalker runs on.                                 *)
(*                                                                         *)
(* A tree has the root directory (node 0) and nodes 1..n beneath it; each  *)
(* node has a parent directory, a kind and a one-letter name.  A node's    *)
(* number is its position in the order read_dir lists entries, so every    *)
(* listing order is some numbering.  "other" is an entry whose metadata is *)
(* neither a directory's nor a regular file's (a symbolic link).           *)
(***************************************************************************)
\* the largest number of entries beneath the root
MaxNodes == 3
\* the largest number of directories whose scan fails
MaxFaults == 1

NodeNames == <<"a", "b", "c", "d", "e", "f", "g", "h">>

NodeKinds == {"dir", "file", "other"}

\* what scanning a directory does: read_dir fails, an entry of the listing is an
\* Err, or an entry's metadata() is an Err
ScanFaults == {"readdir_err", "entry_err", "metadata_err"}

\* the start directories a walker is constructed with
RootDirs == {<<".">>, <<"r">>, <<"t", "p">>}

\* the trees with n nodes beneath the root: a node's parent is the root or an
\* earlier node that is a directory
TreesOfSize(n) ==
    { [n |-> n, parent |-> pk[1], kind |-> pk[2]] :
        pk \in { x \in [1..n -> 0..n] \X [1..n -> NodeKinds] :
                   \A i \in 1..n : x[1][i] < i /\ (x[1][i] = 0 \/ x[2][x[1][i]] = "dir") } }

TreeShapes == UNION { TreesOfSize(n) : n \in 0..MaxNodes }

DirNodes(t) == {0} \cup {i \in 1..t.n : t.kind[i] = "dir"}

FileNodes(t) == {i \in 1..t.n : t.kind[i] = "file"}

\* the faults of a tree: at most MaxFaults directories, each with its fault
FaultMaps(t) ==
    UNION { [F -> ScanFaults] : F \in {G \in SUBSET DirNodes(t) : Cardinality(G) <= MaxFaults} }

\* entry.path(): the directory's path joined with the entry's name
RECURSIVE PathOf(_, _, _)
PathOf(t, root, node) ==
    IF node = 0 THEN root
    ELSE PathOf(t, root, t.parent[node]) \o <<"/">> \o <<NodeNames[node]>>

\* the directory a path names
NodeAt(t, root, path) == CHOOSE d \in DirNodes(t) : PathOf(t, root, d) = path

RECURSIVE EntryPaths(_, _, _, _, _)
\* the paths of d's entries of one kind, from entry from on, in listing order
EntryPaths(t, root, d, kind, from) ==
    IF from > t.n THEN <<>>
    ELSE (IF t.parent[from] = d /\ t.kind[from] = kind
          THEN <<PathOf(t, root, from)>> ELSE <<>>)
         \o EntryPaths(t, root, d, kind, from + 1)

\* DirWalker::populate_with_dir(directory) on stacks [files, dirs]: the stacks it
\* leaves, and whether it panicked
populate_with_dir(t, flt, root, stacks, directory) ==
    LET d == NodeAt(t, root, directory)
    IN  IF d \in DOMAIN flt /\ flt[d] = "readdir_err"
        THEN [files |-> stacks.files, dirs |-> stacks.dirs, panicked |-> FALSE]
        ELSE IF d \in DOMAIN flt
        THEN [files |-> stacks.files, dirs |-> stacks.dirs, panicked |-> TRUE]
        ELSE [files |-> stacks.files \o EntryPaths(t, root, d, "file", 1),
              dirs |-> stacks.dirs \o EntryPaths(t, root, d, "dir", 1),
              panicked |-> FALSE]

\* DirWalker::find_dir_seperator_position (unix): -1 where the unwrap panics
find_dir_seperator_position(path_string) == FindChar(path_string, "/")

\* the subdir_mode branch of next(): the path returned, or a panic
Rebase(filepath) ==
    IF Len(filepath) < 2
    THEN [panicked |-> TRUE, path |-> <<>>]
    ELSE LET path_string == SliceFrom(filepath, 2)
             position == find_dir_seperator_position(path_string)
         IN  IF position < 0
             THEN [panicked |-> TRUE, path |-> <<>>]
             ELSE [panicked |-> FALSE, path |-> <<".">> \o SliceFrom(path_string, position)]

\* Vec::last instead of Vec::pop: the file stays on the stack
PopFile_peek(v) == [item |-> v[Len(v)], rest |-> v]

\* Vec::pop: the element popped and the vector left
PopFile(v) == [item |-> v[Len(v)], rest |-> SubSeq(v, 1, Len(v) - 1)]

PopDir(v) == [item |-> v[Len(v)], rest |-> SubSeq(v, 1, Len(v) - 1)]

\* next() looking at the pending directories before the pending files
RECURSIVE DirWalker_next_dirs_first(_, _, _, _, _)
DirWalker_next_dirs_first(t, flt, root, rebase, stacks) ==
    IF stacks.dirs # <<>>
    THEN LET popped == PopDir(stacks.dirs)
             scanned_dir == populate_with_dir(t, flt, root,
                                              [files |-> stacks.files, dirs |-> popped.rest],
                                              popped.item)
         IN  IF scanned_dir.panicked
             THEN [files |-> scanned_dir.files, dirs |-> scanned_dir.dirs, some |-> FALSE,
                   path |-> <<>>, item |-> <<>>, scans |-> <<popped.item>>,
                   panicked |-> TRUE]
             ELSE LET r == DirWalker_next_dirs_first(t, flt, root, rebase,
                                                     [files |-> scanned_dir.files,
                                                      dirs |-> scanned_dir.dirs])
                  IN  [r EXCEPT !.scans = <<popped.item>> \o @]
    ELSE IF stacks.files # <<>>
    THEN LET popped == PopFile(stacks.files)
             rebased == IF rebase THEN Rebase(popped.item)
                        ELSE [panicked |-> FALSE, path |-> popped.item]
         IN  [files |-> popped.rest, dirs |-> stacks.dirs, some |-> ~rebased.panicked,
              path |-> rebased.path, item |-> popped.item, scans |-> <<>>,
              panicked |-> rebased.panicked]
    ELSE [files |-> stacks.files, dirs |-> stacks.dirs, some |-> FALSE, path |-> <<>>,
          item |-> <<>>, scans |-> <<>>, panicked |-> FALSE]

\* DirWalker::next on stacks [files, dirs]: the stacks it leaves, the Option it
\* returns (some, path), the file path it popped (item), the directories it
\* scanned on the way (scans) and whether it panicked
RECURSIVE DirWalker_next(_, _, _, _, _)
DirWalker_next(t, flt, root, rebase, stacks) ==
    IF stacks.files # <<>>
    THEN LET popped == PopFile(stacks.files)
             rebased == IF rebase THEN Rebase(popped.item)
                        ELSE [panicked |-> FALSE, path |-> popped.item]
         IN  [files |-> popped.rest, dirs |-> stacks.dirs, some |-> ~rebased.panicked,
              path |-> rebased.path, item |-> popped.item, scans |-> <<>>,
              panicked |-> rebased.panicked]
    ELSE IF stacks.dirs # <<>>
    THEN LET popped == PopDir(stacks.dirs)
             scanned_dir == populate_with_dir(t, flt, root,
                                              [files |-> stacks.files, dirs |-> popped.rest],
                                              popped.item)
         IN  IF scanned_dir.panicked
             THEN [files |-> scanned_dir.files, dirs |-> scanned_dir.dirs, some |-> FALSE,
                   path |-> <<>>, item |-> <<>>, scans |-> <<popped.item>>,
                   panicked |-> TRUE]
             ELSE LET r == DirWalker_next(t, flt, root, rebase,
                                          [files |-> scanned_dir.files,
                                           dirs |-> scanned_dir.dirs])
                  IN  [r EXCEPT !.scans = <<popped.item>> \o @]
    ELSE [files |-> stacks.files, dirs |-> stacks.dirs, some |-> FALSE, path |-> <<>>,
          item |-> <<>>, scans |-> <<>>, panicked |-> FALSE]

\* the largest number of read() calls on one walker
MaxReads == 4

\* the lengths of the buffers read() is called with: shorter than every path
\* line, shorter than most, and long enough for every path line of the tree
BufSizes == {1, 3, 3 + 2 * MaxNodes}

\* the copy loops of read(): the number of bytes copied into a buffer of buflen
CopyCount(buflen, text) == IF buflen <= Len(text) THEN buflen ELSE Len(text)

\* the path without its newline
PathLine_no_newline(path) == path

\* format!("{}\n", path)
PathLine(path) == path \o <<"\n">>

\* DirWalker::read(buf) with buf.len() = buflen on w = [files, dirs, unfinished]:
\* the walker it leaves, the bytes written to buf[0..ret], the value returned, the
\* line formatted (if next() was called and returned Some), the directories
\* scanned and whether it panicked
DirWalker_read(t, flt, root, rebase, w, buflen) ==
    IF w.unfinished # <<>>
    THEN LET i == CopyCount(buflen, w.unfinished)
         IN  [files |-> w.files, dirs |-> w.dirs,
              unfinished |-> IF i < Len(w.unfinished) THEN SliceTo(w.unfinished, i)
                             ELSE w.unfinished,
              bytes |-> SliceTo(w.unfinished, i), ret |-> i, formatted |-> <<>>,
              scans |-> <<>>, panicked |-> FALSE]
    ELSE LET r == DirWalker_next(t, flt, root, rebase, [files |-> w.files, dirs |-> w.dirs])
         IN  IF r.panicked
             THEN [files |-> r.files, dirs |-> r.dirs, unfinished |-> w.unfinished,
                   bytes |-> <<>>, ret |-> 0, formatted |-> <<>>, scans |-> r.scans,
                   panicked |-> TRUE]
             ELSE IF ~r.some
             THEN [files |-> r.files, dirs |-> r.dirs, unfinished |-> w.unfinished,
                   bytes |-> <<>>, ret |-> 0, formatted |-> <<>>, scans |-> r.scans,
                   panicked |-> FALSE]
             ELSE LET path_str == PathLine(r.path)
                      i == CopyCount(buflen, path_str)
                  IN  [files |-> r.files, dirs |-> r.dirs,
                       unfinished |-> IF i < Len(path_str) THEN SliceTo(path_str, i)
                                      ELSE w.unfinished,
                       bytes |-> SliceTo(path_str, i), ret |-> i,
                       formatted |-> <<path_str>>, scans |-> r.scans, panicked |-> FALSE]

ReadIdle ==
    /\ pulled_src = <<>>
    /\ scanned = <<>>
    /\ stream = <<>>
    /\ lines = <<>>
    /\ last_read = -1
    /\ reads = 0
    /\ min_buf = 0

WalkInit ==
    /\ tree \in TreeShapes
    /\ faults \in FaultMaps(tree)
    /\ start_directory \in RootDirs
    /\ subdir_mode \in BOOLEAN
    /\ w_pc = "new"
    /\ current_files = <<>>
    /\ current_directories = <<>>
    /\ unfinished_read = <<>>
    /\ pulled = <<>>
    /\ last_pull = "none yet"
    /\ ReadIdle

\* DirWalker::new(start_directory, subdir_mode)
DirWalkerNew ==
    /\ w_pc = "new"
    /\ LET r == populate_with_dir(tree, faults, start_directory,
                                  [files |-> <<>>, dirs |-> <<>>], start_directory)
       IN  /\ current_files' = r.files
           /\ current_directories' = r.dirs
           /\ w_pc' = IF r.panicked THEN "panicked" ELSE "live"
    /\ UNCHANGED <<tree, faults, start_directory, unfinished_read, subdir_mode, pulled,
                   last_pull, readvars, poolvars, gramvars, hashvars>>

\* one pull: the caller calls next()
Pull ==
    /\ w_pc = "live"
    /\ LET r == DirWalker_next(tree, faults, start_directory, subdir_mode,
                               [files |-> current_files, dirs |-> current_directories])
       IN  /\ current_files' = r.files
           /\ current_directories' = r.dirs
           /\ w_pc' = IF r.panicked THEN "panicked" ELSE "live"
           /\ pulled' = IF r.some THEN Append(pulled, r.path) ELSE pulled
           /\ pulled_src' = IF r.some THEN Append(pulled_src, r.item) ELSE pulled_src
           /\ scanned' = scanned \o r.scans
           /\ last_pull' = IF r.panicked THEN last_pull
                           ELSE IF r.some THEN "Some" ELSE "None"
    /\ UNCHANGED <<tree, faults, start_directory, unfinished_read, subdir_mode, stream,
                   lines, last_read, reads, min_buf, poolvars, gramvars, hashvars>>

\* one stream read: the caller calls read(buf) with a buffer of buflen bytes
Read ==
    /\ w_pc = "live"
    /\ reads < MaxReads
    /\ \E buflen \in BufSizes :
        LET r == DirWalker_read(tree, faults, start_directory, subdir_mode,
                                [files |-> current_files, dirs |-> current_directories,
                                 unfinished |-> unfinished_read], buflen)
        IN  /\ current_files' = r.files
            /\ current_directories' = r.dirs
            /\ unfinished_read' = r.unfinished
            /\ scanned' = scanned \o r.scans
            /\ w_pc' = IF r.panicked THEN "panicked" ELSE "live"
            /\ stream' = stream \o r.bytes
            /\ lines' = lines \o r.formatted
            /\ last_read' = IF r.panicked THEN last_read ELSE r.ret
            /\ reads' = IF r.panicked THEN reads ELSE reads + 1
            /\ min_buf' = IF min_buf = 0 \/ buflen < min_buf THEN buflen ELSE min_buf
    /\ UNCHANGED <<tree, faults, start_directory, subdir_mode, pulled, pulled_src,
                   last_pull, poolvars, gramvars, hashvars>>

(***************************************************************************)
(* The specifications.  The worker pool and the directory enumerator share *)
(* no state: each specification runs one of them and holds the other idle. *)
(***************************************************************************)
vars == <<poolvars, walkvars, othervars>>

\* the worker pool before main has run, whatever the command line
PoolUnused ==
    /\ main_pc = "start"
    /\ config = Returned(DefaultOptions(args[1]))
    /\ prepared = <<>>
    /\ num_threads = 0
    /\ ntasks = 0
    /\ fs = <<>>
    /\ rx = <<>>
    /\ q = <<>>
    /\ producer_finished = FALSE
    /\ pushed = 0
    /\ ew_pc = "idle"
    /\ ew_i = 0
    /\ worker_handles = <<>>
    /\ pc = [w \in Workers |-> "unborn"]
    /\ cur = [w \in Workers |-> NoTask]
    /\ last = [w \in Workers |-> "none"]
    /\ chan = <<>>
    /\ steals = <<>>

PoolIdle == args = <<ProgramName>> /\ PoolUnused

WalkIdle ==
    /\ tree = [n |-> 0, parent |-> <<>>, kind |-> <<>>]
    /\ faults = <<>>
    /\ start_directory = <<".">>
    /\ subdir_mode = FALSE
    /\ w_pc = "new"
    /\ current_files = <<>>
    /\ current_directories = <<>>
    /\ unfinished_read = <<>>
    /\ pulled = <<>>
    /\ last_pull = "none yet"
    /\ ReadIdle

GramIdle ==
    /\ g_input = <<>>
    /\ g_line = <<>>
    /\ g_match = <<>>
    /\ g_pc = "idle"

HashIdle ==
    /\ h_len = 0
    /\ h_pos = 0
    /\ h_fed = <<>>
    /\ h_pc = "idle"

Init == PoolInit /\ WalkIdle /\ GramIdle /\ HashIdle

Next ==
    \/ OptionsNew
    \/ Push
    \/ SetFinished
    \/ ExecuteWorkersCall
    \/ ExecuteWorkersSpawn
    \/ ExecuteWorkersReturn
    \/ \E w \in Workers : WorkerSteal(w)
    \/ \E w \in Workers : WorkerProcess(w)
    \/ \E w \in Workers : WorkerCheck(w)

\* the worker pool under every interleaving of the producer and the workers
Spec == Init /\ [][Next]_vars

\* the scheduler runs every thread that can take a step
Fairness ==
    /\ WF_vars(OptionsNew \/ Push \/ SetFinished \/ ExecuteWorkersCall \/ ExecuteWorkersSpawn
               \/ ExecuteWorkersReturn)
    /\ \A w \in Workers : WF_vars(WorkerSteal(w) \/ WorkerProcess(w) \/ WorkerCheck(w))

\* the command lines of the fair runs: a supported and an unknown algorithm
FairInit == Init /\ args \in {<<ProgramName>>, <<ProgramName, <<"-", "a">>, <<"m", "d", "4">>>>}

\* the worker pool when every thread keeps being scheduled
FairSpec == FairInit /\ [][Next]_vars /\ Fairness

WalkSpecInit == WalkInit /\ PoolIdle /\ GramIdle /\ HashIdle

WalkSpecNext ==
    \/ DirWalkerNew
    \/ Pull

\* one DirWalker on one directory tree, used by pulls
WalkSpec == WalkSpecInit /\ [][WalkSpecNext]_vars

ReadSpecNext ==
    \/ DirWalkerNew
    \/ Pull
    \/ Read

\* the trees of the streaming runs: every directory can be scanned
ReadSpecInit == WalkSpecInit /\ faults = <<>>

\* one DirWalker on one directory tree, used by pulls and stream reads in any order
ReadSpec == ReadSpecInit /\ [][ReadSpecNext]_vars

(***************************************************************************)
(* regex_from_opts: the pattern of a manifest line, and its match.        *)
(***************************************************************************)
\* [[:xdigit:]]
IsXDigit(c) ==
    c \in {"0", "1", "2", "3", "4", "5", "6", "7", "8", "9",
           "a", "b", "c", "d", "e", "f", "A", "B", "C", "D", "E", "F"}

\* \s
IsSpace(c) == c \in {" ", "\t", "\n", "\r", "\f"}

\* regex_from_opts(opts): Ok with the pattern, which is count hexadecimal
\* characters (group 1), two \s, any characters but a newline (group 2) and the
\* end of the text; or the Err
regex_from_opts(opts) ==
    CASE opts.algorithm = Sha1 -> [ok |-> TRUE, count |-> 40]
      [] opts.algorithm = Md5 -> [ok |-> TRUE, count |-> 32]
      [] opts.algorithm = Sha224 -> [ok |-> TRUE, count |-> 56]
      [] opts.algorithm = Sha256 -> [ok |-> TRUE, count |-> 64]
      [] opts.algorithm = Sha384 -> [ok |-> TRUE, count |-> 96]
      [] opts.algorithm = Sha512 -> [ok |-> TRUE, count |-> 128]
      [] OTHER -> [ok |-> FALSE, count |-> 0]

\* the pattern matches text from position start (1-based) on: count hexadecimal
\* characters, two whitespace characters, then characters other than a newline
\* up to the end of the text ($ without the multi-line flag)
MatchesAt(count, text, start) ==
    /\ start + count + 1 <= Len(text)
    /\ \A j \in start..(start + count - 1) : IsXDigit(text[j])
    /\ IsSpace(text[start + count])
    /\ IsSpace(text[start + count + 1])
    /\ \A j \in (start + count + 2)..Len(text) : text[j] # "\n"

NoMatch == [matched |-> FALSE, hash |-> <<>>, path |-> <<>>]

\* Regex::captures(text): the leftmost match and its two groups, or None
Regex_captures(count, text) ==
    LET starts == {s \in 1..Len(text) : MatchesAt(count, text, s)}
    IN  IF starts = {} THEN NoMatch
        ELSE LET start == CHOOSE s \in starts : \A o \in starts : s <= o
             IN  [matched |-> TRUE,
                  hash |-> SubSeq(text, start, start + count - 1),
                  path |-> SubSeq(text, start + count + 2, Len(text))]

\* the digests of the manifest lines: a digit repeated, a letter repeated, and
\* the sixteen digits in turn
DigestFills == {"zeros", "letters", "cycle"}

DigestOf(algorithm, fill) ==
    [j \in 1..HexWidth(algorithm) |->
        CASE fill = "zeros" -> "0"
          [] fill = "letters" -> "f"
          [] fill = "cycle" -> HexDigits[(j % 16) + 1]]

\* the paths of the manifest lines, none with a newline
GramPaths ==
    { <<"x">>, <<"a", " ", "b">>, <<"a", " ", " ", "b">>, <<"f", "0">>, <<" ", "x">>,
      <<".", "/", "d", "/", "x", ".", "t">> }

\* how the line is made: as calculate_hash renders it, the same without its
\* newline (as a line-oriented reader hands it on), with one more hexadecimal
\* digit in front, with two tabs or with one space as the separator
LineShapes == {"rendered", "stripped", "longer_hex", "tabs", "one_space"}

GramInputs ==
    [algorithm : SupportedAlgorithms, fill : DigestFills, path : GramPaths, shape : LineShapes]

LineOf(in) ==
    LET digest == DigestOf(in.algorithm, in.fill)
    IN  CASE in.shape = "rendered" -> FormatLine(digest, in.path)
          [] in.shape = "stripped" -> digest \o <<" ", " ">> \o in.path
          [] in.shape = "longer_hex" -> <<"e">> \o digest \o <<" ", " ">> \o in.path
          [] in.shape = "tabs" -> digest \o <<"\t", "\t">> \o in.path
          [] in.shape = "one_space" -> digest \o <<" ">> \o in.path

GramInit ==
    /\ g_input \in GramInputs
    /\ g_line = <<>>
    /\ g_match = <<>>
    /\ g_pc = "input"

\* the manifest line comes into being: format!("{}  {}\n", ..) or a line read
MakeLine ==
    /\ g_pc = "input"
    /\ g_line' = LineOf(g_input)
    /\ g_pc' = "line"
    /\ UNCHANGED <<g_input, g_match, poolvars, walkvars, readvars, hashvars>>

\* regex_from_opts(opts).unwrap().captures(line)
MatchLine ==
    /\ g_pc = "line"
    /\ LET regex == regex_from_opts([algorithm |-> g_input.algorithm])
       IN  g_match' = IF regex.ok THEN Regex_captures(regex.count, g_line) ELSE NoMatch
    /\ g_pc' = "matched"
    /\ UNCHANGED <<g_input, g_line, poolvars, walkvars, readvars, hashvars>>

GrammarSpecInit == GramInit /\ PoolIdle /\ WalkIdle /\ HashIdle

GrammarSpecNext ==
    \/ MakeLine
    \/ MatchLine

\* one manifest line matched against the pattern of its algorithm
GrammarSpec == GrammarSpecInit /\ [][GrammarSpecNext]_vars

(***************************************************************************)
(* The read loop of calculate_hash.  The file's bytes are known by their   *)
(* offsets: a chunk <<offset, n>> is the n bytes from offset on.           *)
(***************************************************************************)
\* const BUFFER_SIZE
BUFFER_SIZE == 1024

\* the largest file length
MaxFileLen == 2050

\* file.read(&mut buffer) at cursor pos of a file of len bytes: the number of
\* bytes read, min(chunk size, bytes remaining)
File_read(len, pos) == IF len - pos >= BUFFER_SIZE THEN BUFFER_SIZE ELSE len - pos

\* a test that takes a full chunk for a short read
BreakRead_inclusive(n) == n = 0 \/ n <= BUFFER_SIZE

\* if n == 0 || n < BUFFER_SIZE { break; }
BreakRead(n) == n = 0 \/ n < BUFFER_SIZE

HashInit ==
    /\ h_len \in 0..MaxFileLen
    /\ h_pos = 0
    /\ h_fed = <<>>
    /\ h_pc = "loop"

\* one iteration of the loop: read, hasher.input(&buffer[0..n]), test
HashRead ==
    /\ h_pc = "loop"
    /\ LET n == File_read(h_len, h_pos)
       IN  /\ h_fed' = Append(h_fed, <<h_pos, n>>)
           /\ h_pos' = h_pos + n
           /\ h_pc' = IF BreakRead(n) THEN "done" ELSE "loop"
    /\ UNCHANGED <<h_len, poolvars, walkvars, readvars, gramvars>>

HashSpecInit == HashInit /\ PoolIdle /\ WalkIdle /\ GramIdle

HashSpecNext == HashRead

\* calculate_hash reading one opened file to its end
HashSpec == HashSpecInit /\ [][HashSpecNext]_vars

(***************************************************************************)
(* Options::new on its own, over the command lines built from a few        *)
(* arguments.                                                              *)
(***************************************************************************)
\* the largest number of arguments after the program name
MaxArgs == 3

\* the arguments the command lines are built from: two directory names, a
\* directory name with a '-' in it, options without and with a value, values,
\* two options in one argument, and an option with its value behind a '='
ArgTokens ==
    { <<"d">>, <<"d", "i", "r">>, <<"m", "y", "-", "d">>, <<"-", "s">>, <<"-", "a">>,
      <<"m", "d", "5">>, <<"-", "T">>, <<"2">>, <<"-", "s", "u">>,
      <<"-", "a", "=", "m", "d", "5">> }

\* std::env::args(): the program name and up to MaxArgs arguments
OptArgVectors ==
    UNION { { <<ProgramName>> \o rest : rest \in [1..n -> ArgTokens] } : n \in 0..MaxArgs }

OptSpecInit ==
    /\ args \in OptArgVectors
    /\ PoolUnused
    /\ WalkIdle
    /\ GramIdle
    /\ HashIdle

OptSpecNext == OptionsNew

\* main's call of Options::new on one command line
OptSpec == OptSpecInit /\ [][OptSpecNext]_vars

(***************************************************************************)
(* Properties of the worker pool.                                          *)
(***************************************************************************)
\* the workers execute_workers starts
Started == 1..num_threads

\* every thread has come to its end: the producer has pushed its tasks and set
\* the flag, execute_workers has returned, and joining the handles returns
Joined ==
    /\ producer_finished
    /\ ew_pc = "returned"
    /\ \A w \in Started : Terminated(w)

Delivered(c) == Len(chan[c]) >= 1

\* task c's file could not be opened, and its HashError was sent
OpenFailureDelivered(c) ==
    /\ fs[c] = "noopen"
    /\ chan[c] = <<[ok |-> FALSE, error |-> [source |-> "open", path |-> TaskPath(c)]]>>

\* C1: with at least one worker, no channel dropped and no worker ended by a
\* panic, once every thread has come to its end every one of the k submitted
\* tasks has an outcome on its result channel.
C1_EveryTaskGetsOutcome ==
    (/\ Joined
     /\ num_threads >= 1
     /\ \A c \in 1..ntasks : rx[c] # "dropped"
     /\ \A w \in Started : pc[w] = "done")
    => \A c \in 1..ntasks : Delivered(c)

\* C2: no task is removed from the queue more than once, no task is held by two
\* workers or by a worker and the queue at once, and no result channel ever
\* carries more than one outcome.
C2_NoTaskTwice ==
    \A c \in 1..ntasks :
        /\ steals[c] <= 1
        /\ Len(chan[c]) <= 1
        /\ Cardinality({w \in Workers : cur[w].result_chan = c})
             + Cardinality({j \in 1..Len(q) : q[j].result_chan = c}) <= 1

\* C2's case: two workers hold two different stolen tasks at the same time
C2_Witness ==
    /\ pc[1] = "work"
    /\ pc[2] = "work"
    /\ cur[1].result_chan # cur[2].result_chan
    /\ steals[1] = 1
    /\ steals[2] = 1

\* C3: once the producer-finished flag is set and the queue is drained, every
\* worker eventually terminates (with no task at all, too).
C3_WorkersTerminate ==
    [](( producer_finished /\ q = <<>>) => <>(\A w \in Started : Terminated(w)))

\* C3's case: no task was submitted, the flag is set, and both workers, which
\* were polling the empty queue, have ended by their break
C3_Witness ==
    /\ ntasks = 0
    /\ producer_finished
    /\ num_threads = 2
    /\ pc[1] = "done"
    /\ pc[2] = "done"

\* C4: when a worker finishes a task whose file could not be opened (the
\* algorithm being a supported one and the task's receiver alive), the outcome
\* appended to that task's channel is the HashError with that task's path, and
\* the worker is back at the top of its loop.
C4_OpenFailureIsOutcome ==
    [][\A w \in Workers :
         LET c == cur[w].result_chan
         IN  (/\ pc[w] = "work"
              /\ pc'[w] # "work"
              /\ cur[w].opts.algorithm \in SupportedAlgorithms
              /\ fs'[c] = "noopen"
              /\ rx'[c] = "alive")
             => /\ chan'[c] = Append(chan[c], [ok |-> FALSE,
                                               error |-> [source |-> "open",
                                                          path |-> TaskPath(c)]])
                /\ \A d \in 1..ntasks : d # c => chan'[d] = chan[d]
                /\ pc'[w] = "steal"]_vars

\* C4's case: the only worker sent the HashError of task 1, whose file could not
\* be opened, and went on to deliver the outcome of task 2
C4_Witness ==
    /\ num_threads = 1
    /\ ntasks = 2
    /\ OpenFailureDelivered(1)
    /\ Len(chan[2]) = 1
    /\ chan[2][1].ok

\* C5: a send that fails because the receiver was dropped does not end the
\* worker thread.
C5_SendFailureKeepsWorker == \A w \in Workers : pc[w] # "panic_send"

\* C6: every per-file I/O failure (the file cannot be opened, or a read fails
\* after it was opened) is delivered as a HashError outcome with the task's
\* path, and does not end the worker.
C6_IoFailureIsOutcome ==
    /\ \A w \in Workers : pc[w] # "panic_read"
    /\ \A c \in 1..ntasks :
         (/\ fs[c] \in {"noopen", "readerr"}
          /\ config.opts.algorithm \in SupportedAlgorithms
          /\ rx[c] # "dropped")
         => /\ Len(chan[c]) = 1
            /\ ~chan[c][1].ok
            /\ chan[c][1].error.path = TaskPath(c)

\* C7: a name outside the six supported ones is rejected at configuration time:
\* a configuration Options::new returns names a supported algorithm, and no
\* worker reaches calculate_hash's dispatch with another name.
C7_UnknownAlgorithmRejected ==
    /\ main_pc = "running" => config.opts.algorithm \in SupportedAlgorithms
    /\ \A w \in Workers :
         pc[w] = "work" => cur[w].opts.algorithm \in SupportedAlgorithms

\* s ends with suffix
EndsWith(s, suffix) ==
    /\ Len(s) >= Len(suffix)
    /\ SubSeq(s, Len(s) - Len(suffix) + 1, Len(s)) = suffix

\* C8: every outcome on task c's result channel is computed from task c alone:
\* a success is a line ending in two spaces, c's path and a newline, with c's
\* expected digest unchanged; an error carries c's path.
C8_OutcomeFromOwnTask ==
    \A c \in 1..ntasks : \A j \in 1..Len(chan[c]) :
        LET o == chan[c][j]
        IN  IF o.ok
            THEN /\ EndsWith(o.line, <<" ", " ">> \o TaskPath(c) \o <<"\n">>)
                 /\ Len(o.line) = HexWidth(config.opts.algorithm) + 2 + Len(TaskPath(c)) + 1
                 /\ o.cmp = TaskCmp(c)
            ELSE o.error.path = TaskPath(c)

\* C8's case: task 2's outcome was delivered while task 1, submitted before it,
\* is still being worked on, and task 2's outcome is its own
C8_Witness ==
    /\ ntasks = 2
    /\ \E w \in Workers : pc[w] = "work" /\ cur[w].result_chan = 1
    /\ Len(chan[2]) = 1
    /\ chan[2][1].ok
    /\ chan[2][1].cmp = TaskCmp(2)

\* C9: execute_workers starts exactly num_threads threads and appends exactly
\* their num_threads handles behind the handles already in the vector; never
\* are more than num_threads workers running.
C9_ExactlyNumThreads ==
    /\ Cardinality({w \in Workers : Running(w)}) <= num_threads
    /\ ew_pc = "idle" => worker_handles = <<PriorHandle>>
    /\ ew_pc = "loop" => worker_handles = <<PriorHandle>> \o [j \in 1..ew_i |-> j]
    /\ ew_pc = "returned" =>
         /\ worker_handles = <<PriorHandle>> \o [j \in 1..num_threads |-> j]
         /\ {w \in Workers : pc[w] # "unborn"} = 1..num_threads

\* C9's case: execute_workers(2, ..) has returned and both workers are running
C9_Witness ==
    /\ ew_pc = "returned"
    /\ num_threads = 2
    /\ Len(worker_handles) = 3
    /\ Running(1)
    /\ Running(2)

(***************************************************************************)
(* Properties of the directory enumerator.                                 *)
(***************************************************************************)
\* the paths of the regular files beneath the root
AllFilePaths == {PathOf(tree, start_directory, i) : i \in FileNodes(tree)}

\* every directory of the tree can be scanned
Scannable == DOMAIN faults = {}

\* s starts with prefix
StartsWith(s, prefix) ==
    /\ Len(s) >= Len(prefix)
    /\ SubSeq(s, 1, Len(prefix)) = prefix

\* C10: on a tree whose directories can all be scanned, with rebasing disabled,
\* pulls never panic, return only paths of regular files beneath the root, return
\* no path twice, have returned every regular file once a pull has returned
\* None, and return None at the latest after as many pulls as there are files.
C10_PullsVisitEveryFileOnce ==
    (~subdir_mode /\ Scannable) =>
        /\ w_pc # "panicked"
        /\ \A j \in 1..Len(pulled) :
             /\ StartsWith(pulled[j], start_directory \o <<"/">>)
             /\ pulled[j] \in AllFilePaths
        /\ \A i, j \in 1..Len(pulled) : i # j => pulled[i] # pulled[j]
        /\ last_pull = "None" => {pulled[j] : j \in 1..Len(pulled)} = AllFilePaths
        /\ (w_pc = "live" /\ Len(pulled) = Cardinality(FileNodes(tree))) =>
             ~DirWalker_next(tree, faults, start_directory, subdir_mode,
                             [files |-> current_files, dirs |-> current_directories]).some

\* C10's case: a pull has returned None after the pulls returned a file of the
\* root and a file of a subdirectory
C10_Witness ==
    /\ ~subdir_mode
    /\ Scannable
    /\ last_pull = "None"
    /\ Len(pulled) = 2
    /\ \E i, j \in FileNodes(tree) : tree.parent[i] = 0 /\ tree.parent[j] # 0

(***************************************************************************)
(* Properties of the enumerator's byte stream.                             *)
(***************************************************************************)
\* the concatenation of a sequence of strings
RECURSIVE Concat(_)
Concat(ss) == IF ss = <<>> THEN <<>> ELSE Head(ss) \o Concat(Tail(ss))

\* the complete newline-terminated lines of text (without their newlines), and
\* the text left after the last newline
RECURSIVE SplitLines(_, _, _)
SplitLines(text, current, done) ==
    IF text = <<>> THEN [complete |-> done, rest |-> current]
    ELSE IF Head(text) = "\n" THEN SplitLines(Tail(text), <<>>, Append(done, current))
    ELSE SplitLines(Tail(text), Append(current, Head(text)), done)

StreamLines == SplitLines(stream, <<>>, <<>>).complete

StreamRest == SplitLines(stream, <<>>, <<>>).rest

\* C11: the bytes the reads have returned, concatenated, are the lines of the
\* traversal's paths, concatenated: at every moment a prefix of them (no byte
\* twice, none skipped), and all of them once a read has returned 0.
C11_StreamIsThePathLines ==
    /\ StartsWith(Concat(lines), stream)
    /\ last_read = 0 => stream = Concat(lines)

\* every read so far was given a buffer that holds any path line of the tree
AllReadsFit ==
    \A i \in FileNodes(tree) : min_buf = 0 \/ min_buf >= Len(PathOf(tree, start_directory, i)) + 1

\* what the caller has been given: the pulled paths and the stream's lines
DeliveredPaths == pulled \o StreamLines

\* C16: under any interleaving of pulls and reads whose buffers hold a whole
\* path line (rebasing disabled), no call panics, every read returns whole
\* lines, everything delivered is a file of the tree, no file is delivered
\* twice (neither twice by one interface nor once by each), and once a pull has
\* returned None or a read 0 every file has been delivered.
C16_InterleavedDeliveryExactlyOnce ==
    (AllReadsFit /\ ~subdir_mode) =>
        /\ w_pc # "panicked"
        /\ StreamRest = <<>>
        /\ unfinished_read = <<>>
        /\ \A j \in 1..Len(DeliveredPaths) : DeliveredPaths[j] \in AllFilePaths
        /\ \A i, j \in 1..Len(DeliveredPaths) : i # j => DeliveredPaths[i] # DeliveredPaths[j]
        /\ (last_pull = "None" \/ last_read = 0) =>
             {DeliveredPaths[j] : j \in 1..Len(DeliveredPaths)} = AllFilePaths

\* C16's case: of three files one was pulled between two that were read as
\* lines, and the stream has ended
C16_Witness ==
    /\ ~subdir_mode
    /\ min_buf > 0
    /\ AllReadsFit
    /\ Cardinality(FileNodes(tree)) = 3
    /\ Len(pulled) = 1
    /\ Len(StreamLines) = 2
    /\ Len(lines) = 2
    /\ lines[1] = PathLine(StreamLines[1])
    /\ last_read = 0
    /\ last_pull = "Some"

\* the file node a popped file path names
FileAt(path) == CHOOSE i \in FileNodes(tree) : PathOf(tree, start_directory, i) = path

\* the path of node below its first subdirectory component: "/<rest>" for a node
\* at <root>/<sub>/<rest>, empty for an entry of the root
RECURSIVE BelowFirstSub(_, _)
BelowFirstSub(t, node) ==
    IF t.parent[node] = 0 THEN <<>>
    ELSE BelowFirstSub(t, t.parent[node]) \o <<"/">> \o <<NodeNames[node]>>

\* C12: with rebasing enabled, every file at <root>/<sub>/<rest> that a pull
\* returns is returned as ./<rest>, whatever root string the walker was built with.
C12_RebasedBelowFirstSubdirectory ==
    subdir_mode =>
        \A j \in 1..Len(pulled) :
            LET i == FileAt(pulled_src[j])
            IN  tree.parent[i] # 0 => pulled[j] = <<".">> \o BelowFirstSub(tree, i)

\* the directories on the way from the root to node, the root included
RECURSIVE Ancestors(_, _)
Ancestors(t, node) == IF node = 0 THEN {0} ELSE {t.parent[node]} \cup Ancestors(t, t.parent[node])

\* the files that do not lie in the subtree of a directory whose scan fails
FilesOutsideFaults == {i \in FileNodes(tree) : Ancestors(tree, i) \cap DOMAIN faults = {}}

\* C13: a failing scan (rebasing disabled) never aborts the traversal, no file
\* of the failed directory's subtree is returned, and once a pull has returned
\* None every file outside those subtrees has been returned.
C13_ScanFailuresAreSwallowed ==
    ~subdir_mode =>
        /\ w_pc # "panicked"
        /\ \A j \in 1..Len(pulled) : FileAt(pulled[j]) \in FilesOutsideFaults
        /\ last_pull = "None" =>
             \A i \in FilesOutsideFaults :
                 \E j \in 1..Len(pulled) : pulled[j] = PathOf(tree, start_directory, i)

\* the last element of a non-empty stack, and the stack without it
Top(v) == v[Len(v)]

Below(v) == SubSeq(v, 1, Len(v) - 1)

\* C20: in every step of a live walker: if a file is pending, the step pops
\* exactly that file, scans nothing and (unless rebasing it panics) returns it;
\* a directory is scanned only when no file is pending; no directory is scanned
\* twice and a scanned directory is never pending again; and once a pull has
\* returned None, pulls return None and nothing more.
C20_PullDiscipline ==
    [][(w_pc = "live" /\ <<current_files, current_directories, pulled, last_pull, w_pc>>'
                          # <<current_files, current_directories, pulled, last_pull, w_pc>>) =>
        /\ current_files # <<>> =>
             /\ current_files' = Below(current_files)
             /\ current_directories' = current_directories
             /\ scanned' = scanned
             /\ w_pc' = "live" =>
                  /\ last_pull' = "Some"
                  /\ Len(pulled') = Len(pulled) + 1
                  /\ pulled_src' = Append(pulled_src, Top(current_files))
        /\ scanned' # scanned => current_files = <<>>
        /\ \A i, j \in 1..Len(scanned') : i # j => scanned'[i] # scanned'[j]
        /\ \A i \in 1..Len(scanned'), j \in 1..Len(current_directories') :
             scanned'[i] # current_directories'[j]
        /\ last_pull = "None" => /\ last_pull' = "None"
                                 /\ pulled' = pulled
                                 /\ scanned' = scanned]_vars

\* C20's case: the pulls scanned two directories besides the root, returned a
\* file, and then returned None twice
C20_Witness ==
    /\ w_pc = "live"
    /\ last_pull = "None"
    /\ Len(scanned) = 2
    /\ Len(pulled) >= 1
    /\ current_files = <<>>
    /\ current_directories = <<>>

(***************************************************************************)
(* Properties of the record grammar.                                       *)
(***************************************************************************)
\* C14: the line calculate_hash renders (digest, two spaces, path, newline),
\* matched against the pattern of the same algorithm, matches, with group 1 the
\* digest and group 2 the path.
C14_RenderedLineRoundTrips ==
    (g_pc = "matched" /\ g_input.shape = "rendered") =>
        /\ g_match.matched
        /\ g_match.hash = DigestOf(g_input.algorithm, g_input.fill)
        /\ g_match.path = g_input.path

\* C15: the pattern matches a line only if the line is exactly W hexadecimal
\* characters, then two space characters, then the path.
C15_MatchOnlyExactWidthAndSpaces ==
    (g_pc = "matched" /\ g_match.matched) =>
        LET W == HexWidth(g_input.algorithm)
        IN  /\ Len(g_line) >= W + 2
            /\ \A j \in 1..W : IsXDigit(g_line[j])
            /\ g_line[W + 1] = " "
            /\ g_line[W + 2] = " "
            /\ g_match.hash = SubSeq(g_line, 1, W)

(***************************************************************************)
(* Properties of calculate_hash's read loop.                               *)
(***************************************************************************)
\* the length of the latest chunk fed to the hasher
LastFed == h_fed[Len(h_fed)][2]

\* C19: the chunks fed to the hasher follow one another from offset 0 without a
\* gap or an overlap; the loop makes at most L / chunk size + 1 reads; it goes on
\* only after a full chunk; and when it has ended the chunks are the file's L
\* bytes, the last read being the zero-byte read when L is a multiple of the
\* chunk size (L = 0 too) and the short read of the remainder otherwise.
C19_ReadLoopFeedsWholeFile ==
    /\ Len(h_fed) >= 1 => h_fed[1][1] = 0
    /\ \A k \in 2..Len(h_fed) : h_fed[k][1] = h_fed[k - 1][1] + h_fed[k - 1][2]
    /\ Len(h_fed) <= (h_len \div BUFFER_SIZE) + 1
    /\ (h_pc = "loop" /\ Len(h_fed) >= 1) => LastFed = BUFFER_SIZE
    /\ h_pc = "done" =>
         /\ h_fed[Len(h_fed)][1] + LastFed = h_len
         /\ h_pos = h_len
         /\ Len(h_fed) = (h_len \div BUFFER_SIZE) + 1
         /\ LastFed = h_len % BUFFER_SIZE

\* C19's case: a file of exactly two chunks was read by two full reads and
\* the zero-byte read
C19_Witness ==
    /\ h_pc = "done"
    /\ h_len = 2 * BUFFER_SIZE
    /\ Len(h_fed) = 3
    /\ LastFed = 0

(***************************************************************************)
(* Properties of Options::new.                                             *)
(***************************************************************************)
\* the options that take the next argument as their value
ValueFlags == AlgoFlags \cup ThreadFlags \cup LogLevelFlags

\* the positions of the arguments that name the folder: no leading '-', and not
\* the value of a value-taking option
FolderPositions(p) ==
    {i \in 1..Len(p) : ~StartsWithChar(p[i], "-") /\ (i = 1 \/ p[i - 1] \notin ValueFlags)}

\* every value-taking option is followed by its value, a thread count by a number
ValuesPresent(p) ==
    \A i \in 1..Len(p) :
        /\ p[i] \in ValueFlags => i < Len(p)
        /\ (p[i] \in ThreadFlags /\ i < Len(p)) => ParseUsize(Trim(p[i + 1])) >= 0

\* C17: on a command line whose value-taking options have their values,
\* Options::new returns, and if some argument (as prepare_args hands it on)
\* has no leading '-' and does not follow a value-taking option, at whatever
\* position, the folder is the last such argument.
C17_FolderAtEveryPosition ==
    LET p == prepare_args(Tail(args))
    IN  (main_pc # "start" /\ ValuesPresent(p)) =>
            /\ ~config.panicked
            /\ FolderPositions(p) # {} =>
                 config.opts.folder = p[CHOOSE i \in FolderPositions(p) :
                                          \A j \in FolderPositions(p) : j <= i]

\* C18: a worker thread leaves its loop by the break only in the step that
\* loads the producer-finished flag, after its latest steal returned Empty, and
\* only when the flag is set: not while the flag is false, not after a Retry
\* and not after processing a task.  (The only other way a worker thread ends is
\* a panic while it processes a task: C5, C6, C7.)
C18_BreakOnlyOnEmptyAndFinished ==
    [][\A w \in Workers :
         /\ (pc'[w] = "done" /\ pc[w] # "done") =>
              /\ pc[w] = "check"
              /\ last[w] = "Empty"
              /\ producer_finished
         /\ (pc[w] = "steal" /\ pc'[w] # "steal") =>
              \/ last'[w] = "Success" /\ pc'[w] = "work"
              \/ last'[w] = "Empty" /\ pc'[w] = "check"
         /\ (pc[w] = "steal" /\ last'[w] = "Retry") => pc'[w] = "steal"
         /\ (pc[w] = "work" /\ pc'[w] # "work") =>
              pc'[w] \in {"steal", "panic_algo", "panic_read", "panic_send"}
         /\ (pc[w] = "check" /\ pc'[w] # "check") =>
              pc'[w] = IF producer_finished THEN "done" ELSE "steal"]_vars

\* C18's case: worker 1 found the queue empty while the flag was not yet set
\* and went on polling, later processed a task, and has left its loop after an
\* Empty steal with the flag set, while worker 2 still works on a task
C18_Witness ==
    /\ ntasks = 2
    /\ pc[1] = "done"
    /\ last[1] = "Empty"
    /\ producer_finished
    /\ Len(chan[1]) = 1
    /\ steals[1] = 1
    /\ pc[2] = "work"

\* the bytes of the path lines of the files in S
RECURSIVE LineBytes(_)
LineBytes(S) ==
    IF S = {} THEN 0
    ELSE LET i == CHOOSE f \in S : TRUE
         IN  Len(PathLine(PathOf(tree, start_directory, i))) + LineBytes(S \ {i})

\* C21: in every read() that returns: a read that copies all that the carry-over
\* buffer held leaves the buffer empty; the reads cannot go on returning bytes
\* for ever, since (rebasing disabled) all they have returned is never more than
\* the path lines of the tree's files; and a read that finds the buffer empty
\* and the traversal exhausted returns 0.
C21_ReadsEndAndCarryOverEmpties ==
    [][reads' = reads + 1 =>
        /\ (unfinished_read # <<>> /\ last_read' = Len(unfinished_read)) =>
             unfinished_read' = <<>>
        /\ ~subdir_mode => Len(stream') <= LineBytes(FileNodes(tree))
        /\ (unfinished_read = <<>> /\ lines' = lines) => last_read' = 0]_vars

\* an argument that starts with one '-', not two
StartsWithSingleDash(arg) == StartsWithChar(arg, "-") /\ ~(Len(arg) >= 2 /\ arg[2] = "-")

\* what one argument becomes: split at the first '=' if it has one; split into
\* single-letter options if it starts with a single '-' and has more than 2
\* characters; itself otherwise
DocumentedOne(arg) ==
    IF ContainsChar(arg, "=")
    THEN <<SliceTo(arg, FindChar(arg, "=")), SliceFrom(arg, FindChar(arg, "=") + 1)>>
    ELSE IF StartsWithSingleDash(arg) /\ Len(arg) > 2
    THEN [j \in 1..(Len(arg) - 1) |-> <<"-", arg[j + 1]>>]
    ELSE <<arg>>

RECURSIVE DocumentedArgs(_)
DocumentedArgs(as) ==
    IF as = <<>> THEN <<>> ELSE DocumentedOne(Head(as)) \o DocumentedArgs(Tail(as))

\* C22: what prepare_args returned to Options::new is, argument by argument and
\* in order, the split into single-letter options of an argument that starts
\* with a single '-' and has more than 2 characters, the two sides of the first
\* '=' of an argument that has one, and every other argument unchanged, one
\* that has a '-' elsewhere than at its start included.
C22_PrepareArgsAsDocumented ==
    main_pc # "start" => prepared = DocumentedArgs(Tail(args))

====
